---- MODULE Spec2Model ----
(***************************************************************************)
(* Model of the CoreML helper scripts:                                     *)
(*   scripts/coreml/export_gpt2_bpe_assets.py  (normalize_merges,          *)
(*       merge_added_tokens, main)                                         *)
(*   scripts/coreml/inspect_coreml_io.py       (main)                      *)
(*                                                                         *)
(* Python values are tagged records: PyNone, PyInt(n), PyStr(s),           *)
(* PyList(items), PyDict(items).  A str is a sequence of one-character     *)
(* symbols (a field name such as "content" counts as one symbol), so that  *)
(* strip() and f-string rendering are computed.  A dict is the sequence of *)
(* its (key, value) items in insertion order; dict objects live in heap    *)
(* and are named by their index there, so that aliasing is observable.     *)
(***************************************************************************)
EXTENDS Integers, Sequences, FiniteSets, TLC

VARIABLES
    pc,                \* position of the running script / function
    tokenizer_json,    \* export: the source document on disk
    fs0,               \* export: the output side of the file system at start
    fs,                \* export: the output side of the file system now
    heap,              \* dict objects by identity (export, merge_added_tokens)
    vocab,             \* reference (index into heap) of the caller's vocab dict
    vocab0,            \* the items of the caller's vocab dict when it was passed
    raw_added_tokens,  \* merge_added_tokens: its second argument
    merged,            \* merge_added_tokens: its outcome (return or raise)
    raw_merges,        \* normalize_merges: its argument
    merges,            \* normalize_merges: its outcome (return or raise)
    exit_code,         \* process exit status, -1 while running
    failure,           \* the failure the run reported, "" if none
    args,              \* inspector: command line
    model_file,        \* inspector: what is at model_path
    out                \* inspector: the printed report

vars == <<pc, tokenizer_json, fs0, fs, heap, vocab, vocab0, raw_added_tokens, merged,
          raw_merges, merges, exit_code, failure, args, model_file, out>>

(***************************************************************************)
(* Bounds of the model.                                                    *)
(***************************************************************************)
MaxStrLen == 2        \* longest merge string fed to normalize_merges
MaxMerges == 3        \* longest raw merge list fed to normalize_merges
MaxVocab == 2         \* most entries of a base vocabulary
MaxAdded == 2         \* longest added_tokens list
MaxDocMerges == 2     \* longest model.merges list of an exported document
MaxExpect == 2        \* most --expect-* names of one kind

(***************************************************************************)
(* Python values.                                                          *)
(***************************************************************************)
PyNone == [t |-> "none"]
PyInt(n) == [t |-> "int", n |-> n]
PyStr(s) == [t |-> "str", s |-> s]
PyList(items) == [t |-> "list", items |-> items]
PyDict(items) == [t |-> "dict", items |-> items]

IsStr(v) == v.t = "str"
IsInt(v) == v.t = "int"
IsList(v) == v.t = "list"
IsDict(v) == v.t = "dict"

Chars == {" ", "a"}
StrOfLen(n) == UNION {[1..k -> Chars] : k \in 0..n}

IsSpace(c) == c = " "

RECURSIVE lstrip(_)
lstrip(s) ==
    IF s # <<>> /\ IsSpace(Head(s)) THEN lstrip(Tail(s)) ELSE s

RECURSIVE rstrip(_)
rstrip(s) ==
    IF s # <<>> /\ IsSpace(s[Len(s)]) THEN rstrip(SubSeq(s, 1, Len(s) - 1)) ELSE s

\* faulty variant: only the right end is trimmed
strip_right_only(s) == rstrip(s)

\* str.strip()
strip(s) == lstrip(rstrip(s))

(***************************************************************************)
(* normalize_merges                                                        *)
(***************************************************************************)
\* f"{entry[0]} {entry[1]}"
render_pair(left, right) == left \o <<" ">> \o right

\* isinstance(entry, list) and len(entry) == 2 and both elements are str
is_pair(entry) ==
    /\ IsList(entry)
    /\ Len(entry.items) = 2
    /\ IsStr(entry.items[1])
    /\ IsStr(entry.items[2])

\* if line:
keep_line(line) == line # <<>>

\* faulty variant: new lines go to the front
add_line_front(lines, line) == <<line>> \o lines

\* lines.append(line)
add_line(lines, line) == Append(lines, line)

\* The for loop of normalize_merges from position i (1-based) on, with the
\* lines collected so far.  The outcome is the returned list or the raised
\* ValueError with the 0-based index it names.
RECURSIVE normalize_from(_, _, _)
normalize_from(raw, i, lines) ==
    IF i > Len(raw) THEN [ok |-> TRUE, lines |-> lines]
    ELSE LET entry == raw[i] IN
         IF IsStr(entry)
         THEN LET line == strip(entry.s) IN
              normalize_from(raw, i + 1,
                             IF keep_line(line) THEN add_line(lines, line) ELSE lines)
         ELSE IF is_pair(entry)
         THEN normalize_from(raw, i + 1,
                             add_line(lines, render_pair(entry.items[1].s, entry.items[2].s)))
         ELSE [ok |-> FALSE, exc |-> "ValueError", idx |-> i - 1, entry |-> entry]

normalize_merges(raw) == normalize_from(raw, 1, <<>>)

NotCalled == [ok |-> FALSE, exc |-> "not called"]
Returned(r) == r.ok
Raised(r) == ~r.ok /\ r.exc = "ValueError"

(***************************************************************************)
(* Values of the variables a specification does not use.                   *)
(***************************************************************************)
NoFs == [vocab_dir |-> FALSE, merges_dir |-> FALSE, vocab_file |-> <<>>,
         merges_file |-> <<>>]

ExportIdle ==
    /\ tokenizer_json = PyNone
    /\ fs0 = NoFs
    /\ fs = NoFs
    /\ exit_code = -1
    /\ failure = ""

MergeAddedIdle ==
    /\ heap = <<>>
    /\ vocab = 0
    /\ vocab0 = <<>>
    /\ raw_added_tokens = PyNone
    /\ merged = NotCalled

NormalizeIdle ==
    /\ raw_merges = <<>>
    /\ merges = NotCalled

InspectIdle ==
    /\ args = PyNone
    /\ model_file = PyNone
    /\ out = PyNone

(***************************************************************************)
(* dict operations (insertion-ordered, keys unique)                        *)
(***************************************************************************)
Item(k, v) == [k |-> k, v |-> v]

HasKey(d, k) == \E i \in 1..Len(d) : d[i].k = k

\* d.get(k)
DictGet(d, k) ==
    IF HasKey(d, k) THEN d[CHOOSE i \in 1..Len(d) : d[i].k = k].v ELSE PyNone

\* faulty variant: an assignment to a present key moves it to the end
DictSetMoveToEnd(d, k, v) ==
    Append(SelectSeq(d, LAMBDA it : it.k # k), Item(k, v))

\* faulty variant: an assignment to an absent key is lost
DictSetNoInsert(d, k, v) ==
    IF HasKey(d, k)
    THEN [i \in 1..Len(d) |-> IF d[i].k = k THEN Item(k, v) ELSE d[i]]
    ELSE d

\* d[k] = v
DictSet(d, k, v) ==
    IF HasKey(d, k)
    THEN [i \in 1..Len(d) |-> IF d[i].k = k THEN Item(k, v) ELSE d[i]]
    ELSE Append(d, Item(k, v))

(***************************************************************************)
(* merge_added_tokens                                                      *)
(***************************************************************************)
\* faulty variant: merged is bound to the caller's dict instead of a new one
NewMergedAliased(h, vref) == [heap |-> h, ref |-> vref]

\* merged: dict[str, int] = {}
NewMerged(h, vref) == [heap |-> Append(h, <<>>), ref |-> Len(h) + 1]

\* faulty variant: the conflict test uses the truth value of existing_id
ConflictsTruthy(existing_id, token_id) ==
    existing_id # PyNone /\ existing_id # PyInt(0) /\ existing_id # token_id

\* existing_id is not None and existing_id != token_id
Conflicts(existing_id, token_id) ==
    existing_id # PyNone /\ existing_id # token_id

MatRaise(h, kind, idx) ==
    [ok |-> FALSE, exc |-> "ValueError", kind |-> kind, idx |-> idx, heap |-> h]

\* the loop over raw_added_tokens from position i (1-based) on
RECURSIVE add_from(_, _, _, _)
add_from(h, m, added, i) ==
    IF i > Len(added) THEN [ok |-> TRUE, ref |-> m, heap |-> h]
    ELSE LET entry == added[i] IN
         IF ~IsDict(entry) THEN MatRaise(h, "MalformedAddedToken", i - 1)
         ELSE LET token == DictGet(entry.items, PyStr(<<"content">>))
                  token_id == DictGet(entry.items, PyStr(<<"id">>))
              IN  IF ~IsStr(token) \/ ~IsInt(token_id)
                  THEN MatRaise(h, "MalformedAddedToken", i - 1)
                  ELSE LET existing_id == DictGet(h[m], token) IN
                       IF Conflicts(existing_id, token_id)
                       THEN [ok |-> FALSE, exc |-> "ValueError",
                             kind |-> "ConflictingTokenId", idx |-> i - 1, heap |-> h,
                             token |-> token, existing |-> existing_id,
                             added |-> token_id]
                       ELSE add_from([h EXCEPT ![m] = DictSet(h[m], token, token_id)],
                                     m, added, i + 1)

\* the loop over vocab.items() from position i (1-based) on
RECURSIVE copy_from(_, _, _, _)
copy_from(h, vref, m, i) ==
    IF i > Len(h[vref]) THEN [ok |-> TRUE, ref |-> m, heap |-> h]
    ELSE LET token == h[vref][i].k
             token_id == h[vref][i].v
         IN  IF ~IsStr(token) \/ ~IsInt(token_id)
             THEN MatRaise(h, "MalformedVocabEntry", i - 1)
             ELSE copy_from([h EXCEPT ![m] = DictSet(h[m], token, token_id)],
                            vref, m, i + 1)

\* merge_added_tokens(vocab, raw_added_tokens) on the heap h; the outcome
\* carries the heap after the call
merge_added_tokens(h, vref, added) ==
    LET new == NewMerged(h, vref)
        copied == copy_from(new.heap, vref, new.ref, 1)
    IN  IF ~copied.ok THEN copied
        ELSE IF added = PyNone THEN copied
        ELSE IF ~IsList(added) THEN MatRaise(copied.heap, "MalformedAddedToken", -1)
        ELSE add_from(copied.heap, copied.ref, added.items, 1)

\* an outcome without the heap it left
Outcome(r) == [f \in DOMAIN r \ {"heap"} |-> r[f]]

(***************************************************************************)
(* Specification of merge_added_tokens alone: a base vocabulary dict on    *)
(* the heap and an added_tokens value, one action applies the function.    *)
(***************************************************************************)
Tok(c) == PyStr(<<c>>)

\* dicts of at most n items with distinct keys among keys, values among vals
DictsOver(keys, vals, n) ==
    {d \in UNION {[1..k -> {Item(key, v) : key \in keys, v \in vals}] : k \in 0..n} :
        \A i, j \in 1..Len(d) : d[i].k = d[j].k => i = j}

AddedEntry(content, id) ==
    PyDict(<<Item(PyStr(<<"content">>), content), Item(PyStr(<<"id">>), id)>>)

BaseVocabs ==
    DictsOver({Tok("a"), Tok("b")}, {PyInt(0), PyInt(1), PyStr(<<"x">>)}, MaxVocab)

AddedEntries ==
    {AddedEntry(Tok(c), PyInt(n)) : c \in {"a", "c", "d"}, n \in {0, 1}}
    \cup {PyInt(3),
          PyDict(<<Item(PyStr(<<"content">>), Tok("c"))>>),
          AddedEntry(PyInt(2), PyInt(2))}

AddedInputs ==
    {PyNone, PyStr(<<"x">>)}
    \cup {PyList(l) : l \in UNION {[1..k -> AddedEntries] : k \in 0..MaxAdded}}

InitMergeAdded ==
    /\ pc = "mat_call"
    /\ vocab0 \in BaseVocabs
    /\ heap = <<vocab0>>
    /\ vocab = 1
    /\ raw_added_tokens \in AddedInputs
    /\ merged = NotCalled
    /\ ExportIdle /\ NormalizeIdle /\ InspectIdle

MatCall ==
    /\ pc = "mat_call"
    /\ LET r == merge_added_tokens(heap, vocab, raw_added_tokens) IN
         /\ heap' = r.heap
         /\ merged' = Outcome(r)
    /\ pc' = "mat_done"
    /\ UNCHANGED <<tokenizer_json, fs0, fs, vocab, vocab0, raw_added_tokens,
                   raw_merges, merges, exit_code, failure, args, model_file, out>>

NextMergeAdded == MatCall

SpecMergeAdded == InitMergeAdded /\ [][NextMergeAdded]_vars

(***************************************************************************)
(* Claims about merge_added_tokens (checked under SpecMergeAdded).         *)
(***************************************************************************)
WellFormedVocab(d) == \A i \in 1..Len(d) : d[i].k.t = "str" /\ d[i].v.t = "int"

EntryContent(e) == DictGet(e.items, PyStr(<<"content">>))
EntryId(e) == DictGet(e.items, PyStr(<<"id">>))

WellFormedEntry(e) ==
    e.t = "dict" /\ EntryContent(e).t = "str" /\ EntryId(e).t = "int"

\* the ids bound to token before entry i is processed: by the base
\* vocabulary and by the entries before i
PriorIds(base, added, i, token) ==
    {base[k].v : k \in {k \in 1..Len(base) : base[k].k = token}}
    \cup {EntryId(added[j]) : j \in {j \in 1..(i - 1) : EntryContent(added[j]) = token}}

ConflictAt(base, added, i) ==
    \E id \in PriorIds(base, added, i, EntryContent(added[i])) : id # EntryId(added[i])

\* entry i is reached: everything before it was accepted
Reached(base, added, i) ==
    /\ WellFormedVocab(base)
    /\ \A j \in 1..i : WellFormedEntry(added[j])
    /\ \A j \in 1..(i - 1) : ~ConflictAt(base, added, j)

\* C4: an entry whose content is already bound (by the base vocabulary or
\* an earlier entry) to a different id, 0 included, makes the call raise the
\* conflict error at that entry with no dict returned; and a returned dict
\* never binds a token to an id other than the one it was first given.
C4_ConflictRaises ==
    (pc = "mat_done" /\ raw_added_tokens.t = "list") =>
        LET added == raw_added_tokens.items IN
        /\ \A i \in 1..Len(added) :
              (Reached(vocab0, added, i) /\ ConflictAt(vocab0, added, i)) =>
                  /\ Raised(merged)
                  /\ merged.kind = "ConflictingTokenId"
                  /\ merged.idx = i - 1
                  /\ merged.token = EntryContent(added[i])
                  /\ merged.existing \in PriorIds(vocab0, added, i, merged.token)
                  /\ merged.added = EntryId(added[i])
                  /\ "ref" \notin DOMAIN merged
        /\ Returned(merged) =>
              \A i \in 1..Len(added) :
                  PriorIds(vocab0, added, i, EntryContent(added[i]))
                      \subseteq {DictGet(heap[merged.ref], EntryContent(added[i]))}

\* a conflict with an existing id of 0 was raised
C4_Witness ==
    /\ pc = "mat_done"
    /\ Raised(merged)
    /\ merged.kind = "ConflictingTokenId"
    /\ merged.existing = PyInt(0)
    /\ merged.added = PyInt(1)

\* C7: the caller's dict is never changed by a call, and without an
\* added-token list a well-formed vocabulary comes back as an equal dict
\* that is another object.
C7_DefensiveCopy ==
    pc = "mat_done" =>
        /\ heap[vocab] = vocab0
        /\ (WellFormedVocab(vocab0) /\ raw_added_tokens = PyNone) =>
              /\ Returned(merged)
              /\ merged.ref # vocab
              /\ heap[merged.ref] = vocab0

\* a call without added tokens returned for a two-entry vocabulary
C7_Witness ==
    /\ pc = "mat_done"
    /\ raw_added_tokens = PyNone
    /\ Returned(merged)
    /\ Len(vocab0) = 2
    /\ Len(heap) = 2

\* C8: a returned dict binds exactly the base tokens (to their base ids) and
\* the added contents (to their entries' ids); its size is the base size
\* plus the number of distinct contents that are not base tokens.
C8_MergedContent ==
    (pc = "mat_done" /\ Returned(merged)) =>
        LET added == IF raw_added_tokens = PyNone THEN <<>> ELSE raw_added_tokens.items
            res == heap[merged.ref]
            baseKeys == {vocab0[i].k : i \in 1..Len(vocab0)}
            contents == {EntryContent(added[i]) : i \in 1..Len(added)}
        IN  /\ {res[i].k : i \in 1..Len(res)} = baseKeys \cup contents
            /\ \A i, j \in 1..Len(res) : res[i].k = res[j].k => i = j
            /\ \A i \in 1..Len(vocab0) :
                  \E j \in 1..Len(res) : res[j] = vocab0[i]
            /\ \A i \in 1..Len(added) :
                  \E j \in 1..Len(res) :
                      res[j] = Item(EntryContent(added[i]), EntryId(added[i]))
            /\ Len(res) = Len(vocab0) + Cardinality(contents \ baseKeys)

\* a returned merge with one new content and one content repeating a base
\* token with its base id
C8_Witness ==
    /\ pc = "mat_done"
    /\ Returned(merged)
    /\ raw_added_tokens.t = "list"
    /\ Len(raw_added_tokens.items) = 2
    /\ Len(vocab0) = 2
    /\ Len(heap[merged.ref]) = 3
    /\ \E i \in 1..2 : HasKey(vocab0, EntryContent(raw_added_tokens.items[i]))

(***************************************************************************)
(* Specification of normalize_merges alone: the argument is drawn from     *)
(* the lists JSON can hold, one action applies the function.               *)
(***************************************************************************)
MergeEntries ==
    {PyStr(s) : s \in StrOfLen(MaxStrLen)}
    \cup {PyList(<<PyStr(<<"a">>), PyStr(<<"b">>)>>),
          PyList(<<PyStr(<<"b">>), PyStr(<<"a">>)>>),
          PyList(<<PyInt(1), PyStr(<<"a">>)>>),
          PyList(<<PyStr(<<"a">>)>>),
          PyList(<<PyStr(<<"a">>), PyStr(<<"b">>), PyStr(<<"a">>)>>),
          PyInt(1)}

RawMergeLists == UNION {[1..k -> MergeEntries] : k \in 0..MaxMerges}

InitNormalize ==
    /\ pc = "nm_call"
    /\ raw_merges \in RawMergeLists
    /\ merges = NotCalled
    /\ ExportIdle /\ MergeAddedIdle /\ InspectIdle

NmCall ==
    /\ pc = "nm_call"
    /\ merges' = normalize_merges(raw_merges)
    /\ pc' = "nm_done"
    /\ UNCHANGED <<tokenizer_json, fs0, fs, heap, vocab, vocab0, raw_added_tokens, merged,
                   raw_merges, exit_code, failure, args, model_file, out>>

NextNormalize == NmCall

SpecNormalize == InitNormalize /\ [][NextNormalize]_vars

(***************************************************************************)
(* Claims about normalize_merges (checked under SpecNormalize).            *)
(***************************************************************************)
AllSpaces(s) == \A i \in 1..Len(s) : s[i] = " "

\* entries that are strings of whitespace only (or empty)
BlankEntry(e) == e.t = "str" /\ AllSpaces(e.s)

\* the shapes the function accepts, stated from the input format
WellShaped(e) ==
    \/ e.t = "str"
    \/ /\ e.t = "list"
       /\ DOMAIN e.items = 1..2
       /\ e.items[1].t = "str"
       /\ e.items[2].t = "str"

\* positions of raw, in order, that are not blank strings
RECURSIVE KeptPositions(_, _)
KeptPositions(raw, i) ==
    IF i > Len(raw) THEN <<>>
    ELSE IF BlankEntry(raw[i]) THEN KeptPositions(raw, i + 1)
    ELSE <<i>> \o KeptPositions(raw, i + 1)

\* line is s without its surrounding whitespace
IsTrimOf(s, line) ==
    /\ line # <<>>
    /\ line[1] # " "
    /\ line[Len(line)] # " "
    /\ \E i \in 0..Len(s) :
          /\ i + Len(line) <= Len(s)
          /\ \A k \in 1..i : s[k] = " "
          /\ \A k \in 1..Len(line) : s[i + k] = line[k]
          /\ \A k \in (i + Len(line) + 1)..Len(s) : s[k] = " "

C6_NormalizeShape ==
    pc = "nm_done" =>
        LET bad == {i \in 1..Len(raw_merges) : ~WellShaped(raw_merges[i])}
            blanks == {i \in 1..Len(raw_merges) : BlankEntry(raw_merges[i])}
            kept == KeptPositions(raw_merges, 1)
        IN  IF bad = {}
            THEN /\ Returned(merges)
                 /\ Len(merges.lines) = Len(raw_merges) - Cardinality(blanks)
                 /\ \A j \in 1..Len(kept) :
                       LET e == raw_merges[kept[j]] IN
                       IF e.t = "list"
                       THEN merges.lines[j] = e.items[1].s \o <<" ">> \o e.items[2].s
                       ELSE IsTrimOf(e.s, merges.lines[j])
            ELSE /\ Raised(merges)
                 /\ "lines" \notin DOMAIN merges
                 /\ merges.idx + 1 \in bad
                 /\ \A i \in bad : merges.idx + 1 <= i

\* a returned call whose input holds a blank string, a pair and a string
C6_Witness ==
    /\ pc = "nm_done"
    /\ Returned(merges)
    /\ Len(raw_merges) = 3
    /\ \E i, j, k \in 1..3 :
          /\ i < j
          /\ BlankEntry(raw_merges[i])
          /\ raw_merges[j].t = "list"
          /\ raw_merges[k].t = "str" /\ ~BlankEntry(raw_merges[k])
    /\ Len(merges.lines) = 2

(***************************************************************************)
(* The export script: main of export_gpt2_bpe_assets.py.                   *)
(*                                                                         *)
(* tokenizer_json is [kind |-> "missing"], [kind |-> "unparsable"] or      *)
(* [kind |-> "file", root |-> <a dict value>].  The output side of the     *)
(* file system holds the two parent directories (present or not) and the   *)
(* two files (their text, or Absent).                                      *)
(***************************************************************************)
Absent == <<"<absent>">>

Key(name) == PyStr(<<name>>)

\* str(n) for the ids of the model
RECURSIVE IntText(_)
IntText(n) ==
    IF n < 0 THEN <<"-">> \o IntText(-n)
    ELSE IF n < 10 THEN <<ToString(n)>>
    ELSE IntText(n \div 10) \o <<ToString(n % 10)>>

\* the items of json.dump(vocab, f, ensure_ascii=False, separators=(",", ":"))
\* from position i on
RECURSIVE dump_items(_, _)
dump_items(d, i) ==
    IF i > Len(d) THEN <<>>
    ELSE (IF i > 1 THEN <<",">> ELSE <<>>)
         \o <<"\"">> \o d[i].k.s \o <<"\"", ":">> \o IntText(d[i].v.n)
         \o dump_items(d, i + 1)

json_dump(d) == <<"{">> \o dump_items(d, 1) \o <<"}">>

\* for line in merges: f.write(line); f.write("\n")
RECURSIVE write_lines(_, _)
write_lines(lines, i) ==
    IF i > Len(lines) THEN <<>>
    ELSE lines[i] \o <<"\n">> \o write_lines(lines, i + 1)

merges_text(lines) == <<"#version: 0.2", "\n">> \o write_lines(lines, 1)

DocVocabs ==
    {PyNone,
     PyDict(<<>>),
     PyDict(<<Item(Tok("a"), PyInt(0)), Item(Tok("b"), PyInt(1))>>),
     PyDict(<<Item(Tok("b"), PyInt(1)), Item(Tok("a"), PyInt(0))>>),
     PyDict(<<Item(Tok("a"), PyStr(<<"x">>))>>)}

DocAddedEntries ==
    {AddedEntry(Tok("a"), PyInt(0)),
     AddedEntry(Tok("a"), PyInt(5)),
     AddedEntry(Tok("c"), PyInt(2)),
     AddedEntry(Tok("d"), PyInt(3))}

DocAdded ==
    {PyNone, PyStr(<<"x">>)}
    \cup {PyList(l) : l \in UNION {[1..k -> DocAddedEntries] : k \in 0..MaxAdded}}

DocMergeEntries ==
    {PyStr(<<"a", " ", "b">>),
     PyStr(<<" ">>),
     PyList(<<PyStr(<<"c">>), PyStr(<<"d">>)>>),
     PyList(<<PyInt(1), PyStr(<<"x">>)>>)}

DocMerges ==
    {PyNone}
    \cup {PyList(l) : l \in UNION {[1..k -> DocMergeEntries] : k \in 0..MaxDocMerges}}

DocModels ==
    {PyNone}
    \cup {PyDict(<<Item(Key("type"), Key(ty)), Item(Key("vocab"), v),
                   Item(Key("merges"), m)>>) :
             ty \in {"BPE", "WordPiece"}, v \in DocVocabs, m \in DocMerges}

\* a root without the optional added_tokens key when a is None
Root(model, a) ==
    PyDict(<<Item(Key("model"), model)>>
           \o (IF a = PyNone THEN <<>> ELSE <<Item(Key("added_tokens"), a)>>))

Documents ==
    {[kind |-> "missing"], [kind |-> "unparsable"]}
    \cup {[kind |-> "file", root |-> Root(model, a)] : model \in DocModels, a \in DocAdded}

FileSystems ==
    {[vocab_dir |-> FALSE, merges_dir |-> FALSE, vocab_file |-> Absent,
      merges_file |-> Absent],
     [vocab_dir |-> TRUE, merges_dir |-> TRUE, vocab_file |-> <<"old">>,
      merges_file |-> <<"old">>]}

Init ==
    /\ pc = "start"
    /\ tokenizer_json \in Documents
    /\ fs0 \in FileSystems
    /\ fs = fs0
    /\ exit_code = -1
    /\ failure = ""
    /\ MergeAddedIdle /\ NormalizeIdle /\ InspectIdle

\* return <code> from main, or an exception leaving it (status 1)
Exit(code, what) ==
    /\ exit_code' = code
    /\ failure' = what
    /\ pc' = "exit"

Continue(next) ==
    /\ pc' = next
    /\ UNCHANGED <<exit_code, failure>>

TheRoot == tokenizer_json.root.items
TheModel == DictGet(TheRoot, Key("model")).items

\* if not tokenizer_path.is_file(): return 2
CheckSource ==
    /\ pc = "start"
    /\ IF tokenizer_json.kind = "missing"
       THEN Exit(2, "SourceNotFound")
       ELSE Continue("load")
    /\ UNCHANGED <<tokenizer_json, fs0, fs, heap, vocab, vocab0, raw_added_tokens,
                   merged, raw_merges, merges, args, model_file, out>>

\* root = json.load(f): a JSONDecodeError leaves main uncaught
LoadJson ==
    /\ pc = "load"
    /\ IF tokenizer_json.kind = "unparsable"
       THEN Exit(1, "MalformedSource")
       ELSE Continue("model")
    /\ UNCHANGED <<tokenizer_json, fs0, fs, heap, vocab, vocab0, raw_added_tokens,
                   merged, raw_merges, merges, args, model_file, out>>

\* if not isinstance(model, dict): return 3
CheckModel ==
    /\ pc = "model"
    /\ IF ~IsDict(DictGet(TheRoot, Key("model")))
       THEN Exit(3, "MissingModelSection")
       ELSE Continue("type")
    /\ UNCHANGED <<tokenizer_json, fs0, fs, heap, vocab, vocab0, raw_added_tokens,
                   merged, raw_merges, merges, args, model_file, out>>

\* if model_type != "BPE": return 4
CheckType ==
    /\ pc = "type"
    /\ IF DictGet(TheModel, Key("type")) # Key("BPE")
       THEN Exit(4, "UnsupportedModelType")
       ELSE Continue("vocab")
    /\ UNCHANGED <<tokenizer_json, fs0, fs, heap, vocab, vocab0, raw_added_tokens,
                   merged, raw_merges, merges, args, model_file, out>>

\* if not isinstance(vocab, dict) or not vocab: return 5
CheckVocab ==
    /\ pc = "vocab"
    /\ LET v == DictGet(TheModel, Key("vocab")) IN
       IF ~IsDict(v) \/ v.items = <<>>
       THEN /\ Exit(5, "MissingVocabulary")
            /\ UNCHANGED <<heap, vocab, vocab0, raw_added_tokens>>
       ELSE /\ Continue("merge_added")
            /\ heap' = <<v.items>>
            /\ vocab' = 1
            /\ vocab0' = v.items
            /\ raw_added_tokens' = DictGet(TheRoot, Key("added_tokens"))
    /\ UNCHANGED <<tokenizer_json, fs0, fs, merged, raw_merges, merges, args,
                   model_file, out>>

\* faulty variant: the ValueError of merge_added_tokens is swallowed
MergeAddedIgnoreError ==
    /\ pc = "merge_added"
    /\ LET r == merge_added_tokens(heap, vocab, raw_added_tokens) IN
         /\ heap' = r.heap
         /\ merged' = Outcome(r)
         /\ Continue("merges")
         /\ IF r.ok THEN vocab' = r.ref ELSE UNCHANGED vocab
    /\ UNCHANGED <<tokenizer_json, fs0, fs, vocab0, raw_added_tokens, raw_merges,
                   merges, args, model_file, out>>

\* vocab = merge_added_tokens(vocab, root.get("added_tokens"))
\* except ValueError: return 8
MergeAdded ==
    /\ pc = "merge_added"
    /\ LET r == merge_added_tokens(heap, vocab, raw_added_tokens) IN
         /\ heap' = r.heap
         /\ merged' = Outcome(r)
         /\ IF r.ok
            THEN Continue("merges") /\ vocab' = r.ref
            ELSE Exit(8, r.kind) /\ UNCHANGED vocab
    /\ UNCHANGED <<tokenizer_json, fs0, fs, vocab0, raw_added_tokens, raw_merges,
                   merges, args, model_file, out>>

\* if not isinstance(merges_raw, list) or not merges_raw: return 6
CheckMerges ==
    /\ pc = "merges"
    /\ LET merges_raw == DictGet(TheModel, Key("merges")) IN
       IF ~IsList(merges_raw) \/ merges_raw.items = <<>>
       THEN Exit(6, "MissingMerges") /\ UNCHANGED raw_merges
       ELSE Continue("normalize") /\ raw_merges' = merges_raw.items
    /\ UNCHANGED <<tokenizer_json, fs0, fs, heap, vocab, vocab0, raw_added_tokens,
                   merged, merges, args, model_file, out>>

\* faulty variant: an empty normalized list is written out
NormalizeMergesNoEmptyCheck ==
    /\ pc = "normalize"
    /\ LET r == normalize_merges(raw_merges) IN
         /\ merges' = r
         /\ IF ~r.ok THEN Exit(1, "MalformedMergeEntry")
            ELSE Continue("mkdir_vocab")
    /\ UNCHANGED <<tokenizer_json, fs0, fs, heap, vocab, vocab0, raw_added_tokens,
                   merged, raw_merges, args, model_file, out>>

\* merges = normalize_merges(merges_raw): a ValueError leaves main uncaught;
\* if not merges: return 7
NormalizeMerges ==
    /\ pc = "normalize"
    /\ LET r == normalize_merges(raw_merges) IN
         /\ merges' = r
         /\ IF ~r.ok THEN Exit(1, "MalformedMergeEntry")
            ELSE IF r.lines = <<>> THEN Exit(7, "EmptyMergeSet")
            ELSE Continue("mkdir_vocab")
    /\ UNCHANGED <<tokenizer_json, fs0, fs, heap, vocab, vocab0, raw_added_tokens,
                   merged, raw_merges, args, model_file, out>>

\* out_vocab.parent.mkdir(parents=True, exist_ok=True)
MkdirVocab ==
    /\ pc = "mkdir_vocab"
    /\ fs' = [fs EXCEPT !.vocab_dir = TRUE]
    /\ Continue("mkdir_merges")
    /\ UNCHANGED <<tokenizer_json, fs0, heap, vocab, vocab0, raw_added_tokens,
                   merged, raw_merges, merges, args, model_file, out>>

\* out_merges.parent.mkdir(parents=True, exist_ok=True)
MkdirMerges ==
    /\ pc = "mkdir_merges"
    /\ fs' = [fs EXCEPT !.merges_dir = TRUE]
    /\ Continue("write_vocab")
    /\ UNCHANGED <<tokenizer_json, fs0, heap, vocab, vocab0, raw_added_tokens,
                   merged, raw_merges, merges, args, model_file, out>>

\* with out_vocab.open("w") as f: json.dump(vocab, f, ...)
WriteVocab ==
    /\ pc = "write_vocab"
    /\ fs' = [fs EXCEPT !.vocab_file = json_dump(heap[vocab])]
    /\ Continue("write_merges")
    /\ UNCHANGED <<tokenizer_json, fs0, heap, vocab, vocab0, raw_added_tokens,
                   merged, raw_merges, merges, args, model_file, out>>

\* with out_merges.open("w") as f: header, then the lines
WriteMerges ==
    /\ pc = "write_merges"
    /\ fs' = [fs EXCEPT !.merges_file = merges_text(merges.lines)]
    /\ Continue("return")
    /\ UNCHANGED <<tokenizer_json, fs0, heap, vocab, vocab0, raw_added_tokens,
                   merged, raw_merges, merges, args, model_file, out>>

\* return 0
ReturnSuccess ==
    /\ pc = "return"
    /\ Exit(0, "")
    /\ UNCHANGED <<tokenizer_json, fs0, fs, heap, vocab, vocab0, raw_added_tokens,
                   merged, raw_merges, merges, args, model_file, out>>

Next ==
    \/ CheckSource
    \/ LoadJson
    \/ CheckModel
    \/ CheckType
    \/ CheckVocab
    \/ MergeAdded
    \/ CheckMerges
    \/ NormalizeMerges
    \/ MkdirVocab
    \/ MkdirMerges
    \/ WriteVocab
    \/ WriteMerges
    \/ ReturnSuccess

Spec == Init /\ [][Next]_vars

(***************************************************************************)
(* Claims about the export script (checked under Spec).                    *)
(***************************************************************************)
Field(d, name) == DictGet(d.items, PyStr(<<name>>))

DocModel == Field(tokenizer_json.root, "model")
DocAddedTokens == Field(tokenizer_json.root, "added_tokens")

\* the validation steps a document violates, each stated on the document
Violates1 == tokenizer_json.kind # "file"
Violates2 == ~Violates1 /\ DocModel.t # "dict"
Violates3 == ~Violates1 /\ ~Violates2 /\ Field(DocModel, "type") # PyStr(<<"BPE">>)
Violates4 ==
    /\ ~Violates1 /\ ~Violates2
    /\ \/ Field(DocModel, "vocab").t # "dict"
       \/ Field(DocModel, "vocab").items = <<>>
Violates5 ==
    /\ ~Violates1 /\ ~Violates2 /\ ~Violates4
    /\ LET base == Field(DocModel, "vocab").items
           a == DocAddedTokens
       IN  \/ ~WellFormedVocab(base)
           \/ a.t \notin {"none", "list"}
           \/ /\ a.t = "list"
              /\ \E i \in 1..Len(a.items) :
                    \/ ~WellFormedEntry(a.items[i])
                    \/ /\ \A j \in 1..i : WellFormedEntry(a.items[j])
                       /\ ConflictAt(base, a.items, i)
Violates6 ==
    /\ ~Violates1 /\ ~Violates2
    /\ \/ Field(DocModel, "merges").t # "list"
       \/ Field(DocModel, "merges").items = <<>>
Violates7 ==
    /\ ~Violates1 /\ ~Violates2 /\ ~Violates6
    /\ LET m == Field(DocModel, "merges").items IN
          \/ \E i \in 1..Len(m) : ~WellShaped(m[i])
          \/ \A i \in 1..Len(m) : BlankEntry(m[i])

ViolatedSteps ==
    {k \in 1..7 : \/ k = 1 /\ Violates1
                  \/ k = 2 /\ Violates2
                  \/ k = 3 /\ Violates3
                  \/ k = 4 /\ Violates4
                  \/ k = 5 /\ Violates5
                  \/ k = 6 /\ Violates6
                  \/ k = 7 /\ Violates7}

\* the step a reported failure belongs to, 0 for success
StepOf(what) ==
    CASE what = "" -> 0
      [] what \in {"SourceNotFound", "MalformedSource"} -> 1
      [] what = "MissingModelSection" -> 2
      [] what = "UnsupportedModelType" -> 3
      [] what = "MissingVocabulary" -> 4
      [] what \in {"MalformedVocabEntry", "MalformedAddedToken", "ConflictingTokenId"} -> 5
      [] what = "MissingMerges" -> 6
      [] what \in {"MalformedMergeEntry", "EmptyMergeSet"} -> 7

\* C1: the output files and their directories are touched only for a
\* document that passes every validation step; a failed run leaves the file
\* system as it was, and a finished run that wrote the vocabulary file wrote
\* the merges file too.
C1_NoPartialOutput ==
    /\ fs # fs0 => ViolatedSteps = {}
    /\ (pc = "exit" /\ exit_code # 0) => fs = fs0
    /\ (pc = "exit" /\ fs.vocab_file # fs0.vocab_file) =>
          /\ fs.merges_file # fs0.merges_file
          /\ fs.merges_file # Absent
          /\ fs.vocab_dir /\ fs.merges_dir

\* a run that failed at the last validation step, nothing created
C1_Witness ==
    /\ pc = "exit"
    /\ failure = "EmptyMergeSet"
    /\ fs = fs0
    /\ ~fs.vocab_dir
    /\ fs.vocab_file = Absent

\* the exit code the claim gives each failure category
ClaimedCode(what) ==
    CASE what = "" -> 0
      [] what = "SourceNotFound" -> 2
      [] what = "MissingModelSection" -> 3
      [] what = "UnsupportedModelType" -> 4
      [] what = "MissingVocabulary" -> 5
      [] what \in {"MissingMerges", "MalformedMergeEntry"} -> 6
      [] what = "EmptyMergeSet" -> 7
      [] what \in {"MalformedVocabEntry", "MalformedAddedToken", "ConflictingTokenId"} -> 8
      [] OTHER -> -1

\* C2: for a source that exists and parses, the exit code is the code of
\* the failure's category (0 for success), so every failing run exits with
\* one of the codes 2..8 and a malformed merge entry with the code of the
\* missing/invalid-merges category.
C2_ExitCodePerCategory ==
    (pc = "exit" /\ tokenizer_json.kind = "file") =>
        /\ exit_code \in {0} \cup 2..8
        /\ exit_code = ClaimedCode(failure)

\* C3: a failing run reports the failure of the lowest-numbered step the
\* document violates, a succeeding run violates none, and the steps after
\* the failing one were not evaluated.
C3_FirstViolatedStep ==
    pc = "exit" =>
        /\ StepOf(failure) = 0 <=> ViolatedSteps = {}
        /\ exit_code = 0 <=> failure = ""
        /\ StepOf(failure) # 0 =>
              /\ StepOf(failure) \in ViolatedSteps
              /\ \A k \in ViolatedSteps : StepOf(failure) <= k
              /\ StepOf(failure) < 5 => merged = NotCalled
              /\ StepOf(failure) < 7 => merges = NotCalled
              /\ fs = fs0

\* a document with a conflicting added-token id and no merges list failed
\* with the conflict
C3_Witness ==
    /\ pc = "exit"
    /\ failure = "ConflictingTokenId"
    /\ exit_code = 8
    /\ Violates6
    /\ Field(DocModel, "merges") = PyNone

\* the key order C9 claims: the base order, then the new contents in the
\* order of their first entry
RECURSIVE ClaimedItems(_, _, _)
ClaimedItems(sofar, added, i) ==
    IF i > Len(added) THEN sofar
    ELSE ClaimedItems(
             IF \E j \in 1..Len(sofar) : sofar[j].k = EntryContent(added[i])
             THEN sofar
             ELSE sofar \o <<[k |-> EntryContent(added[i]), v |-> EntryId(added[i])]>>,
             added, i + 1)

RECURSIVE ClaimedVocabText(_)
ClaimedVocabText(items) ==
    IF items = <<>> THEN <<>>
    ELSE <<"\"">> \o Head(items).k.s \o <<"\"", ":", ToString(Head(items).v.n)>>
         \o (IF Len(items) > 1 THEN <<",">> ELSE <<>>)
         \o ClaimedVocabText(Tail(items))

RECURSIVE ClaimedMergesText(_)
ClaimedMergesText(lines) ==
    IF lines = <<>> THEN <<>>
    ELSE Head(lines) \o <<"\n">> \o ClaimedMergesText(Tail(lines))

\* C9: after a successful export the vocabulary file lists the base tokens
\* in base order and then the new tokens in input order (a repeated token
\* neither moves nor appears twice), and the merges file is the header line
\* and then each normalized line with its newline.
C9_OutputOrder ==
    (pc = "exit" /\ exit_code = 0) =>
        LET added == IF DocAddedTokens = PyNone THEN <<>> ELSE DocAddedTokens.items
            base == Field(DocModel, "vocab").items
        IN  /\ fs.vocab_file
                 = <<"{">> \o ClaimedVocabText(ClaimedItems(base, added, 1)) \o <<"}">>
            /\ fs.merges_file
                 = <<"#version: 0.2", "\n">> \o ClaimedMergesText(merges.lines)
            /\ Len(merges.lines) = Len(KeptPositions(Field(DocModel, "merges").items, 1))

\* {"a":0,"b":1} with added tokens a (same id, repeated) and c (new) was
\* exported with two merge rules
C9_Witness ==
    /\ pc = "exit"
    /\ exit_code = 0
    /\ DocAddedTokens = PyList(<<AddedEntry(Tok("a"), PyInt(0)),
                                 AddedEntry(Tok("c"), PyInt(2))>>)
    /\ fs.vocab_file = <<"{", "\"", "a", "\"", ":", "0", ",",
                         "\"", "b", "\"", ":", "1", ",",
                         "\"", "c", "\"", ":", "2", "}">>
    /\ fs.merges_file = <<"#version: 0.2", "\n", "a", " ", "b", "\n",
                          "c", " ", "d", "\n">>

(***************************************************************************)
(* The model description inspector: main of inspect_coreml_io.py.          *)
(*                                                                         *)
(* args is [expect_input, expect_output, expect_state, strict]; model_file *)
(* says whether the path exists, whether coremltools imports, whether the  *)
(* model loads and, if so, the feature names its description declares      *)
(* (has_state: the description has a state attribute at all).              *)
(***************************************************************************)
Names == {"x", "y"}

ExpectLists == UNION {[1..k -> Names] : k \in 0..MaxExpect}

InspectArgs ==
    [expect_input : ExpectLists, expect_output : ExpectLists,
     expect_state : ExpectLists, strict : BOOLEAN]

Descriptions ==
    [input : {<<"x">>, <<"x", "y">>}, output : {<<"x">>, <<"y", "x">>},
     has_state : {TRUE}, state : {<<>>, <<"y">>}]
    \cup [input : {<<"x">>}, output : {<<"x">>}, has_state : {FALSE}, state : {<<>>}]

ModelFiles ==
    {[exists |-> FALSE], [exists |-> TRUE, coremltools |-> FALSE],
     [exists |-> TRUE, coremltools |-> TRUE, loads |-> FALSE]}
    \cup {[exists |-> TRUE, coremltools |-> TRUE, loads |-> TRUE, desc |-> d] :
             d \in Descriptions}

\* [x for x in expected if x not in names]
not_in(expected, names) ==
    SelectSeq(expected, LAMBDA x : \A i \in 1..Len(names) : names[i] # x)

\* faulty variant: missing states do not count
all_missing_no_states(er) == er.missingInputs \o er.missingOutputs

\* missingInputs + missingOutputs + missingStates
all_missing(er) == er.missingInputs \o er.missingOutputs \o er.missingStates

\* state_names = [] unless hasattr(desc, "state")
state_names(desc) == IF desc.has_state THEN desc.state ELSE <<>>

InitInspect ==
    /\ pc = "i_start"
    /\ args \in InspectArgs
    /\ model_file \in ModelFiles
    /\ out = PyNone
    /\ exit_code = -1
    /\ failure = ""
    /\ tokenizer_json = PyNone
    /\ fs0 = NoFs
    /\ fs = NoFs
    /\ MergeAddedIdle /\ NormalizeIdle

\* if not p.exists(): sys.exit(1)
InspectCheckPath ==
    /\ pc = "i_start"
    /\ IF ~model_file.exists THEN Exit(1, "NotFound") ELSE Continue("i_import")
    /\ UNCHANGED <<tokenizer_json, fs0, fs, heap, vocab, vocab0, raw_added_tokens,
                   merged, raw_merges, merges, args, model_file, out>>

\* import coremltools as ct; except Exception: sys.exit(1)
InspectImport ==
    /\ pc = "i_import"
    /\ IF ~model_file.coremltools THEN Exit(1, "LibraryUnavailable")
       ELSE Continue("i_load")
    /\ UNCHANGED <<tokenizer_json, fs0, fs, heap, vocab, vocab0, raw_added_tokens,
                   merged, raw_merges, merges, args, model_file, out>>

\* mlmodel = ct.models.MLModel(str(p)); except Exception: sys.exit(1)
InspectLoad ==
    /\ pc = "i_load"
    /\ IF ~model_file.loads THEN Exit(1, "LoadFailure") ELSE Continue("i_report")
    /\ UNCHANGED <<tokenizer_json, fs0, fs, heap, vocab, vocab0, raw_added_tokens,
                   merged, raw_merges, merges, args, model_file, out>>

\* out = {...}; print(json.dumps(out, indent=2))
InspectReport ==
    /\ pc = "i_report"
    /\ LET desc == model_file.desc IN
       out' = [names |-> [inputs |-> desc.input, outputs |-> desc.output,
                          states |-> state_names(desc)],
               expectationResults |->
                   [missingInputs |-> not_in(args.expect_input, desc.input),
                    missingOutputs |-> not_in(args.expect_output, desc.output),
                    missingStates |-> not_in(args.expect_state, state_names(desc))]]
    /\ Continue("i_strict")
    /\ UNCHANGED <<tokenizer_json, fs0, fs, heap, vocab, vocab0, raw_added_tokens,
                   merged, raw_merges, merges, args, model_file>>

\* if args.strict: ... if missing: sys.exit(2); main returns otherwise
InspectStrict ==
    /\ pc = "i_strict"
    /\ IF args.strict /\ all_missing(out.expectationResults) # <<>>
       THEN Exit(2, "ExpectationMismatch")
       ELSE Exit(0, "")
    /\ UNCHANGED <<tokenizer_json, fs0, fs, heap, vocab, vocab0, raw_added_tokens,
                   merged, raw_merges, merges, args, model_file, out>>

NextInspect ==
    \/ InspectCheckPath
    \/ InspectImport
    \/ InspectLoad
    \/ InspectReport
    \/ InspectStrict

SpecInspect == InitInspect /\ [][NextInspect]_vars

(***************************************************************************)
(* Claim about the inspector (checked under SpecInspect).                  *)
(***************************************************************************)
Elems(q) == {q[i] : i \in 1..Len(q)}

Loaded == model_file.exists /\ model_file.coremltools /\ model_file.loads

DeclaredStates == IF model_file.desc.has_state THEN Elems(model_file.desc.state) ELSE {}

\* C10: the names reported missing are exactly the expected names that the
\* model does not declare for that kind; the exit code is 2 exactly when a
\* loaded model is inspected in strict mode with some expected name
\* missing, 0 for every other loaded model, and 1 (not 2) for a path not
\* found, an unavailable library or a load failure.
C10_StrictExit ==
    pc = "exit" =>
        IF Loaded
        THEN LET mi == Elems(args.expect_input) \ Elems(model_file.desc.input)
                 mo == Elems(args.expect_output) \ Elems(model_file.desc.output)
                 ms == Elems(args.expect_state) \ DeclaredStates
             IN  /\ Elems(out.expectationResults.missingInputs) = mi
                 /\ Elems(out.expectationResults.missingOutputs) = mo
                 /\ Elems(out.expectationResults.missingStates) = ms
                 /\ exit_code = 2 <=> (args.strict /\ mi \cup mo \cup ms # {})
                 /\ exit_code # 2 => exit_code = 0
        ELSE exit_code = 1 /\ out = PyNone

\* a strict run that failed because only an expected state name is missing
C10_Witness ==
    /\ pc = "exit"
    /\ exit_code = 2
    /\ args.strict
    /\ out.expectationResults.missingInputs = <<>>
    /\ out.expectationResults.missingOutputs = <<>>
    /\ out.expectationResults.missingStates = <<"x">>
    /\ args.expect_input = <<"x">>

====
